---- MODULE Spec2Model ----
(***************************************************************************)
(* The debounce coordinator of pkg/execution/debounce: Debounce calls for  *)
(* one (function, debounce key), the keyed store (pointer + item map), the *)
(* delay queue, and the executor that fires a debounce job.                *)
(*                                                                         *)
(* Times are in milliseconds.  The store scripts and the queue are not in *)
(* the available sources; they are modelled from sections 4.3, 4.4, 4.5   *)
(* and 6 of the specification.                                             *)
(***************************************************************************)
EXTENDS Integers, Sequences, FiniteSets, TLC

VARIABLES
    now,        \* wall clock, ms
    cfg,        \* fn.Debounce: [period |-> duration string, timeout |-> ms or 0 (nil)]
    ptr,        \* the debounce pointer of the key: NoPtr or [id, exp]
    items,      \* the item map: debounce id -> stored DebounceItem
    queue,      \* the delay queue: job id -> [at, leased]
    nextID,     \* the next fresh ULID
    pc,         \* position of each Debounce call
    ev,         \* the event timestamp each call carries (di.Event.Timestamp)
    cnow,       \* `now` as captured by the running newDebounce/updateDebounce
    did,        \* the debounce id the call works under
    out,        \* the last updateDebounce script result of the call
    n,          \* the retry depth of the call
    res,        \* what Debounce returned
    wake,       \* end of the 750ms retry wait
    ctx,        \* the caller's context of each call: "live" or "canceled"
    exec,       \* executor position per fired job id
    delivered,  \* what GetDebounceItem returned to the executor, per job id
    created,    \* history: debounce id -> [at, timeout] as newDebounce created it
    reached,    \* history: debounce id -> calls whose event the scripts compared or stored, in script order
    lastAcc,    \* history: debounce id -> [at, eff, by] of the last item-overwriting script
    enq,        \* history: debounce id -> number of successful Enqueue calls
    rotated,    \* history: debounce id -> the fresh id StartExecution rotated the pointer to
    arrived,    \* history: per call, the ids StartExecution had returned for when the call arrived
    burst,      \* history: every call so far arrived within the open window and ran without delay
    keys        \* debounceKey: the key expression, the event data, and the keys derived from them

vars == <<now, cfg, ptr, items, queue, nextID, pc, ev, cnow, did, out, n, res,
          wake, ctx, exec, delivered, created, reached, lastAcc, enq, rotated,
          arrived, burst, keys>>

callVars == <<pc, ev, cnow, did, out, n, res, wake, ctx>>
execVars == <<exec, delivered>>
histVars == <<created, reached, lastAcc, enq, rotated, arrived, burst>>

----------------------------------------------------------------------------
(* Bounds of the model *)

MaxCalls == 2
MaxTicks == 8
MaxTs    == 2
MaxDeletes == 2
MaxTicksLong == 15

(* Program constants *)

Second     == 1000
buffer     == 50
RetryWait  == 750
MaxRetries == 5

\* context.WithTimeout(ctx, 5*time.Second) in updateDebounce
UpdateDeadline == 5 * Second

TickMs == Second \div 2

Calls   == 1..MaxCalls
EventTs == 1..MaxTs

\* fn.Debounce.Period / fn.Debounce.Timeout of the function under test
Configs == { [period |-> "1s", timeout |-> 0],
             [period |-> "2s", timeout |-> 3 * Second],
             [period |-> "5s", timeout |-> 2 * Second] }

\* the function of the long runs
LongConfig == [period |-> "6s", timeout |-> 0]

\* fn.Debounce == nil, and a period that is no duration
NoDebounce == [period |-> "<nil>", timeout |-> 0]
BadPeriod  == [period |-> "soon", timeout |-> 0]

ParseError == -1

\* str2duration.ParseDuration on the periods in use
ParseDuration(str) ==
    CASE str = "1s" -> 1 * Second
      [] str = "2s" -> 2 * Second
      [] str = "5s" -> 5 * Second
      [] str = "6s" -> 6 * Second
      [] OTHER      -> ParseError

\* ttl as Debounce hands it to debounce()
Ttl == ParseDuration(cfg.period)

(* Errors: a sentinel is its message, fmt.Errorf("...: %w", err) puts its   *)
(* message in front                                                         *)

Nil                   == "nil"
ErrDebounceExists     == "a debounce exists for this function"
ErrDebounceNotFound   == "debounce not found"
ErrDebounceInProgress == "debounce is in progress"
DeadlineExceeded      == "context deadline exceeded"
Canceled              == "context canceled"
ErrNoConfig           == "fn has no debounce config"
ErrParse              == "invalid duration"
ErrQueueItemExists    == "queue item already exists"
ErrQueueItemNotFound  == "queue item not found"
ErrQueueItemAlreadyLeased == "queue item already leased"
ErrTransport          == "connection refused"

Wrap(msg, err) == msg \o ": " \o err

NoPtr    == [id |-> 0, exp |-> 0]
NoExpiry == -1
NoID     == 0
NoOut    == -9
NotFound == [ev |-> 0, ts |-> 0, t |-> 0]

\* a stored payload that is not a serialized DebounceItem, and the error
\* json.Unmarshal returns for it
Garbage        == [ev |-> -1, ts |-> 0, t |-> 0]
UnmarshalError == [ev |-> -2, ts |-> 0, t |-> 0]

Min(a, b) == IF a < b THEN a ELSE b

Remove(f, d) == [x \in (DOMAIN f) \ {d} |-> f[x]]

----------------------------------------------------------------------------
(* The coordinator's pure computations *)

\* (variant: the period taken in whole minutes)
TtlMinutes(ttl) == ttl \div (60 * Second)

\* strconv.Itoa(int(ttl.Seconds())): the period truncated to whole seconds
TtlSeconds(ttl) == ttl \div Second

\* di.Timeout = time.Now().Add(*timeout).UnixMilli(), only when a timeout is configured
ItemTimeout(t, timeout) == IF timeout # 0 THEN t + timeout ELSE 0

\* the item newDebounce serializes: the caller's item with Timeout set
NewItem(p, t) == [ev |-> p, ts |-> ev[p], t |-> ItemTimeout(t, cfg.timeout)]

\* the item updateDebounce serializes: the caller's item as passed to Debounce
UpdateItem(p) == [ev |-> p, ts |-> ev[p], t |-> 0]

\* (variant: without the extra second)
EnqueueAtBufferOnly(t, ttl) == t + ttl + buffer

\* now.Add(ttl).Add(buffer).Add(time.Second)
EnqueueAt(t, ttl) == t + ttl + buffer + Second

\* (variant: the requested period is used instead of the TTL the script returned)
RequeueAtPeriod(t, o) == t + Ttl + buffer + Second

\* actualTTL := time.Second * time.Duration(out); now.Add(actualTTL).Add(buffer).Add(time.Second)
RequeueAt(t, o) == t + (Second * o) + buffer + Second

\* (variant: the current time is passed where the event timestamp belongs)
IncomingEventMsNow(p) == cnow[p]

\* (variant: the event timestamp is passed in seconds)
IncomingEventSeconds(p) == ev[p] \div Second

\* strconv.Itoa(int(di.Event.Timestamp)): ARGV[6] of updateDebounce
IncomingEventMs(p) == ev[p]

----------------------------------------------------------------------------
(* The store scripts, as functions of the store and their arguments *)

PtrLive == ptr # NoPtr

\* a pointer set to id that expires ttlSec seconds from now (gone at once when ttlSec <= 0)
SetEx(id, ttlSec) ==
    IF ttlSec > 0 THEN [id |-> id, exp |-> now + ttlSec * Second] ELSE NoPtr

\* newDebounce: [out, ptr, items]; out = NoID means "0" (created)
newDebounceScript(id, item, ttlSec) ==
    IF ~PtrLive
    THEN [out   |-> NoID,
          ptr   |-> SetEx(id, ttlSec),
          items |-> (id :> item) @@ items]
    ELSE [out |-> ptr.id, ptr |-> ptr, items |-> items]

\* step 4 of updateDebounce: min(ttl, remaining to timeout_ms), in seconds, no floor
EffectiveTTL(stored, ttlSec, nowMs) ==
    IF stored.t # 0 THEN Min(ttlSec, (stored.t - nowMs) \div Second) ELSE ttlSec

\* (variant: the script does not look at the job's lease)
JobLeasedIgnored(id) == FALSE

\* step 5 of updateDebounce: the queue item of the job is leased
JobLeased(id) == id \in DOMAIN queue /\ queue[id].leased

\* updateDebounce: [out, ptr, items, ok]; ok tells that steps 6 and 7 were reached
updateDebounceScript(id, item, ttlSec, nowMs, eventMs) ==
    LET same == [ptr |-> ptr, items |-> items, ok |-> FALSE] IN
    IF ~PtrLive
    THEN [out |-> -1] @@ same
    ELSE IF ptr.id \notin DOMAIN items
    THEN [out |-> -3] @@ same
    ELSE IF items[ptr.id].ts > eventMs
    THEN [out |-> -2] @@ same
    ELSE LET eff == EffectiveTTL(items[ptr.id], ttlSec, nowMs) IN
         IF JobLeased(id)
         THEN [out |-> -1] @@ same
         ELSE [out   |-> eff,
               ptr   |-> SetEx(ptr.id, eff),
               items |-> [items EXCEPT ![ptr.id] = item],
               ok    |-> TRUE]

\* (variant: the pointer is swapped whatever it holds)
startScriptAlways(newID, currentID) ==
    [out |-> 0, ptr |-> [id |-> newID, exp |-> NoExpiry]]

\* start: [out, ptr]
startScript(newID, currentID) ==
    IF PtrLive /\ ptr.id = currentID
    THEN [out |-> 0, ptr |-> [id |-> newID, exp |-> NoExpiry]]
    ELSE [out |-> 1, ptr |-> ptr]

----------------------------------------------------------------------------
(* The delay queue *)

\* debounceID.String()
IDString(id) == ToString(id)

KindDebounce == "debounce"

\* the function the calls are for
FnID == "fn"

\* DebounceItem.QueuePayload(): the identifiers of the item, without its event
QueuePayload(p) == [FunctionID |-> FnID]

\* (variant: the payload carries the event of the call)
queueItemWithEvent(p, id) ==
    [JobID   |-> IDString(id),
     Kind    |-> KindDebounce,
     Payload |-> [DebounceID |-> id, Event |-> ev[p]] @@ QueuePayload(p)]

\* queueItem(ctx, di, debounceID)
queueItem(p, id) ==
    [JobID   |-> IDString(id),
     Kind    |-> KindDebounce,
     Payload |-> [DebounceID |-> id] @@ QueuePayload(p)]

\* (variant: Enqueue reports success whether or not a job with that id is outstanding)
EnqueueResultAlwaysOk(id) == "ok"

\* Enqueue(item, at): "ok" or an error when a job with that id is outstanding
EnqueueResult(id) == IF id \in DOMAIN queue THEN "exists" ELSE "ok"

\* the debounce id whose string form is the job id of the item
JobKey(qi) == CHOOSE d \in 1..nextID : IDString(d) = qi.JobID

Enqueued(qi, at) ==
    IF JobKey(qi) \in DOMAIN queue THEN queue
    ELSE (JobKey(qi) :> [at |-> at, leased |-> FALSE, item |-> qi]) @@ queue

\* RequeueByJobID(shard, jobID, at)
RequeueResult(id) ==
    IF id \notin DOMAIN queue THEN "notfound"
    ELSE IF queue[id].leased THEN "leased" ELSE "ok"

\* (variant: a requeue leaves the schedule as it was)
RequeuedNothing(id, at) == queue

Requeued(id, at) ==
    IF RequeueResult(id) = "ok" THEN [queue EXCEPT ![id].at = at] ELSE queue

\* the finished job leaves the queue
Dequeued(id) == Remove(queue, id)

\* (variant: the field is left in the map)
HdelNothing(id) == items

\* HDEL of the item map field
Hdel(id) == Remove(items, id)

----------------------------------------------------------------------------
\* nothing stored, nothing queued, no call made
InitRest ==
    /\ now = 0
    /\ ptr = NoPtr
    /\ items = <<>>
    /\ queue = <<>>
    /\ nextID = 1
    /\ pc = [p \in Calls |-> "idle"]
    /\ ev = [p \in Calls |-> 0]
    /\ cnow = [p \in Calls |-> 0]
    /\ did = [p \in Calls |-> NoID]
    /\ out = [p \in Calls |-> NoOut]
    /\ n = [p \in Calls |-> 0]
    /\ res = [p \in Calls |-> "none"]
    /\ wake = [p \in Calls |-> 0]
    /\ ctx = [p \in Calls |-> "live"]
    /\ exec = <<>>
    /\ delivered = <<>>
    /\ created = <<>>
    /\ reached = <<>>
    /\ lastAcc = <<>>
    /\ enq = <<>>
    /\ rotated = <<>>
    /\ arrived = [p \in Calls |-> {}]
    /\ burst = TRUE

\* no key has been derived
NoKey == [key |-> "", err |-> "none"]

\* the function has no key expression (fn.Debounce.Key == nil)
NoExpr == "<nil>"

\* the one key of the runs of Spec: no expression, event data left out
KeysOfFn == [expr |-> NoExpr, data |-> <<>>, debounce |-> NoKey, start |-> NoKey]

Init ==
    /\ keys = KeysOfFn
    /\ cfg \in Configs \cup {NoDebounce, BadPeriod}
    /\ InitRest

\* the ids StartExecution has returned for
StartReturned == {d \in DOMAIN exec : exec[d].st \in {"started", "finished"}}

\* time passes; a pointer whose expiry is reached is gone
Advance(limit) ==
    /\ now + TickMs <= limit * TickMs
    /\ now' = now + TickMs
    /\ ptr' = IF ptr # NoPtr /\ ptr.exp # NoExpiry /\ ptr.exp <= now + TickMs
              THEN NoPtr ELSE ptr
    /\ burst' = (burst /\ \A p \in Calls : pc[p] \in {"idle", "done"})
    /\ UNCHANGED <<cfg, keys, items, queue, nextID, callVars, execVars, created, reached, lastAcc, enq, rotated, arrived>>

Tick == Advance(MaxTicks)

\* the debounce window is open: less than one effective TTL has passed since the
\* last event was accepted (history)
WindowOpen ==
    \A d \in DOMAIN lastAcc : now < lastAcc[d].at + lastAcc[d].eff * Second

\* (variant: the configuration is not looked at)
ConfigErrorNone(c) == Nil

\* Debounce: fn.Debounce == nil, or the period does not parse
ConfigError(c) ==
    IF c = NoDebounce THEN ErrNoConfig
    ELSE IF ParseDuration(c.period) = ParseError
         THEN Wrap("invalid debounce duration", ErrParse)
         ELSE Nil

\* Debounce(ctx, di, fn): a call arrives with its event
Debounce(p) ==
    /\ pc[p] = "idle"
    /\ IF p = 1 THEN TRUE ELSE pc[p - 1] # "idle"
    /\ \E ts \in EventTs : ev' = [ev EXCEPT ![p] = ts]
    /\ IF ConfigError(cfg) # Nil
       THEN /\ pc' = [pc EXCEPT ![p] = "done"]
            /\ res' = [res EXCEPT ![p] = ConfigError(cfg)]
       ELSE /\ pc' = [pc EXCEPT ![p] = "new"]
            /\ res' = res
    /\ cnow' = [cnow EXCEPT ![p] = now]
    /\ burst' = (burst /\ WindowOpen)
    /\ arrived' = [arrived EXCEPT ![p] = StartReturned]
    /\ UNCHANGED <<now, cfg, keys, ctx, ptr, items, queue, nextID, did, out, n, wake,
                   execVars, created, reached, lastAcc, enq, rotated>>

\* Debounce returns err to its caller
Return(p, err) ==
    /\ pc' = [pc EXCEPT ![p] = "done"]
    /\ res' = [res EXCEPT ![p] = err]
    /\ wake' = wake

\* (variant: the retry branch never gives up)
RetryForever(p, err) ==
    /\ pc' = [pc EXCEPT ![p] = "wait"]
    /\ res' = res
    /\ wake' = [wake EXCEPT ![p] = now + RetryWait]

\* the retry branch of debounce(): give up at n == 5, else wait and recurse
Retry(p, err) ==
    IF n[p] = MaxRetries
    THEN Return(p, Wrap("unable to update debounce", err))
    ELSE /\ pc' = [pc EXCEPT ![p] = "wait"]
         /\ res' = res
         /\ wake' = [wake EXCEPT ![p] = now + RetryWait]

\* (variant: every error of updateDebounce is retried)
IsRetryableAny(err) == err # Nil

\* err == context.DeadlineExceeded || err == ErrDebounceInProgress || err == ErrDebounceNotFound
IsRetryable(err) == err \in {DeadlineExceeded, ErrDebounceInProgress, ErrDebounceNotFound}

\* debounce() with the error updateDebounce returned
AfterUpdate(p, err) ==
    IF IsRetryable(err) THEN Retry(p, err) ELSE Return(p, err)

\* <-time.After(750ms); return d.debounce(ctx, di, fn, ttl, n+1)
RetryWake(p) ==
    /\ pc[p] = "wait"
    /\ now >= wake[p]
    /\ pc' = [pc EXCEPT ![p] = "new"]
    /\ n' = [n EXCEPT ![p] = n[p] + 1]
    /\ cnow' = [cnow EXCEPT ![p] = now]
    /\ UNCHANGED <<now, cfg, keys, ctx, ptr, items, queue, nextID, ev, did, out, res, wake,
                   execVars, histVars>>

\* (variant: every answer of the script is taken as "created")
AfterNewAlwaysCreated(o) == "enqueue"

\* debounce(): nil from newDebounce (script answered "0") ends in the Enqueue,
\* ErrDebounceExists with the existing id goes on to updateDebounce
AfterNew(o) == IF o = NoID THEN "enqueue" ELSE "update"

\* (variant: debounce() returns every error of newDebounce)
ExistsIsInternalNever(err) == FALSE

\* debounce(): `if err != ErrDebounceExists { return err }`
ExistsIsInternal(err) == err = ErrDebounceExists

\* newDebounce up to the script's answer; on ErrDebounceExists updateDebounce begins
newDebounce(p) ==
    /\ pc[p] = "new"
    /\ ctx[p] = "live"
    /\ LET r == newDebounceScript(nextID, NewItem(p, cnow[p]), TtlSeconds(Ttl)) IN
       /\ ptr' = r.ptr
       /\ items' = r.items
       /\ IF r.out # NoID /\ ~ExistsIsInternal(ErrDebounceExists)
          THEN Return(p, ErrDebounceExists)
          ELSE /\ pc' = [pc EXCEPT ![p] = AfterNew(r.out)]
               /\ UNCHANGED <<res, wake>>
       /\ IF r.out = NoID
          THEN /\ did' = [did EXCEPT ![p] = nextID]
               /\ nextID' = nextID + 1
               /\ cnow' = cnow
               /\ created' = (nextID :> [at |-> cnow[p], timeout |-> cfg.timeout]) @@ created
               /\ reached' = (nextID :> <<p>>) @@ reached
               /\ lastAcc' = (nextID :> [at |-> now, eff |-> Ttl \div Second, by |-> p]) @@ lastAcc
               /\ enq' = (nextID :> 0) @@ enq
               /\ UNCHANGED <<rotated, arrived, burst>>
          ELSE /\ did' = [did EXCEPT ![p] = r.out]
               /\ nextID' = nextID
               /\ cnow' = [cnow EXCEPT ![p] = now]
               /\ UNCHANGED histVars
    /\ UNCHANGED <<now, cfg, keys, ctx, queue, ev, out, n, execVars>>

\* newDebounce, out == "0": d.q.Enqueue(ctx, qi, now+ttl+buffer+1s)
newDebounceEnqueue(p) ==
    /\ pc[p] = "enqueue"
    /\ queue' = Enqueued(queueItem(p, did[p]), EnqueueAt(cnow[p], Ttl))
    /\ enq' = IF EnqueueResult(did[p]) = "ok"
              THEN [enq EXCEPT ![did[p]] = @ + 1] ELSE enq
    /\ Return(p, IF EnqueueResult(did[p]) = "ok" THEN Nil
                  ELSE Wrap("error enqueueing debounce job", ErrQueueItemExists))
    /\ UNCHANGED <<now, cfg, keys, ctx, ptr, items, nextID, ev, cnow, did, out, n,
                   execVars, created, reached, lastAcc, rotated, arrived, burst>>

\* the context of updateDebounce has not reached its deadline
InDeadline(p) == now < cnow[p] + UpdateDeadline

\* (variant: the switch has no case for -2)
AfterScriptNoOrderCase(o) ==
    CASE o = -1 -> "retry"
      [] o = -3 -> "enqueue"
      [] OTHER  -> "requeue"

\* the switch on the script result in updateDebounce, and debounce()'s handling of it
AfterScript(o) ==
    CASE o = -1 -> "retry"
      [] o = -2 -> "nil"
      [] o = -3 -> "enqueue"
      [] OTHER  -> "requeue"

\* updateDebounce up to the script's answer
updateDebounce(p) ==
    /\ pc[p] = "update"
    /\ InDeadline(p)
    /\ LET r == updateDebounceScript(did[p], UpdateItem(p), TtlSeconds(Ttl),
                                     cnow[p], IncomingEventMs(p))
           target == ptr.id
       IN
       /\ ptr' = r.ptr
       /\ items' = r.items
       /\ out' = [out EXCEPT ![p] = r.out]
       /\ reached' = IF r.ok \/ (r.out = -2 /\ target \in DOMAIN reached)
                     THEN [reached EXCEPT ![target] = Append(@, p)] ELSE reached
       /\ lastAcc' = IF r.ok
                     THEN [lastAcc EXCEPT ![target] = [at |-> now, eff |-> r.out, by |-> p]]
                     ELSE lastAcc
       /\ CASE AfterScript(r.out) = "retry" ->
                 AfterUpdate(p, ErrDebounceInProgress)
            [] AfterScript(r.out) = "nil" ->
                 AfterUpdate(p, Nil)
            [] AfterScript(r.out) = "enqueue" ->
                 /\ pc' = [pc EXCEPT ![p] = "reenqueue"]
                 /\ UNCHANGED <<res, wake>>
            [] AfterScript(r.out) = "requeue" ->
                 /\ pc' = [pc EXCEPT ![p] = "requeue"]
                 /\ UNCHANGED <<res, wake>>
    /\ UNCHANGED <<now, cfg, keys, ctx, queue, nextID, ev, cnow, did, n, execVars, created, enq, rotated, arrived, burst>>

\* case -3: d.q.Enqueue(ctx, qi, now+ttl+buffer+1s)
updateDebounceEnqueue(p) ==
    /\ pc[p] = "reenqueue"
    /\ InDeadline(p)
    /\ queue' = Enqueued(queueItem(p, did[p]), EnqueueAt(cnow[p], Ttl))
    /\ enq' = IF EnqueueResult(did[p]) = "ok" /\ did[p] \in DOMAIN enq
              THEN [enq EXCEPT ![did[p]] = @ + 1]
              ELSE IF EnqueueResult(did[p]) = "ok" THEN (did[p] :> 1) @@ enq ELSE enq
    /\ AfterUpdate(p, IF EnqueueResult(did[p]) = "ok" THEN Nil ELSE ErrQueueItemExists)
    /\ UNCHANGED <<now, cfg, keys, ctx, ptr, items, nextID, ev, cnow, did, out, n,
                   execVars, created, reached, lastAcc, rotated, arrived, burst>>

\* (variant: ErrQueueItemAlreadyLeased is handled like any other error of the queue)
RequeueErrorUntranslated(r) ==
    CASE r = "ok" -> Nil
      [] r = "leased" -> Wrap("error requeueing debounce job", ErrQueueItemAlreadyLeased)
      [] OTHER -> Wrap("error requeueing debounce job", ErrQueueItemNotFound)

\* what updateDebounce returns for the answer of RequeueByJobID
RequeueError(r) ==
    CASE r = "ok" -> Nil
      [] r = "leased" -> ErrDebounceInProgress
      [] OTHER -> Wrap("error requeueing debounce job", ErrQueueItemNotFound)

\* default: d.q.RequeueByJobID(ctx, shard, debounceID, now+actualTTL+buffer+1s)
updateDebounceRequeue(p) ==
    /\ pc[p] = "requeue"
    /\ InDeadline(p)
    /\ queue' = Requeued(did[p], RequeueAt(cnow[p], out[p]))
    /\ AfterUpdate(p, RequeueError(RequeueResult(did[p])))
    /\ UNCHANGED <<now, cfg, keys, ctx, ptr, items, nextID, ev, cnow, did, out, n,
                   execVars, histVars>>

----------------------------------------------------------------------------
(* The executor: the queue leases a due job, the executor reads the item,  *)
(* starts the execution and deletes the item.                              *)

Fires(d) == IF d \in DOMAIN exec THEN exec[d].fires ELSE 0

\* (variant: only the swap counts as success)
StartResultSwapOnly(o) == IF o = 0 THEN "nil" ELSE "invalid status"

\* switch res { case 0, 1: return nil; default: invalid status }
StartResult(o) == IF o \in {0, 1} THEN "nil" ELSE "invalid status"

JobLease(d) ==
    /\ d \in DOMAIN queue
    /\ ~queue[d].leased
    /\ now >= queue[d].at
    /\ queue' = [queue EXCEPT ![d].leased = TRUE]
    /\ exec' = (d :> [st |-> "leased", fires |-> Fires(d) + 1, out |-> NoOut,
                       res |-> "none", dels |-> 0, dres |-> "none",
                       out2 |-> NoOut, res2 |-> "none"]) @@ exec
    /\ UNCHANGED <<now, cfg, keys, ptr, items, nextID, callVars, delivered, histVars>>

\* (variant: a payload that does not decode is reported as missing)
GetResultLenient(id) ==
    IF id \notin DOMAIN items \/ items[id] = Garbage THEN NotFound ELSE items[id]

\* HGET; redis nil -> ErrDebounceNotFound; json.Unmarshal error -> error; else the item
GetResult(id) ==
    IF id \notin DOMAIN items THEN NotFound
    ELSE IF items[id] = Garbage THEN UnmarshalError
    ELSE items[id]

GetDebounceItem(d) ==
    /\ d \in DOMAIN exec /\ exec[d].st = "leased"
    /\ delivered' = (d :> GetResult(d)) @@ delivered
    /\ exec' = [exec EXCEPT ![d].st = "got"]
    /\ UNCHANGED <<now, cfg, keys, ptr, items, queue, nextID, callVars, histVars>>

StartExecution(d) ==
    /\ d \in DOMAIN exec /\ exec[d].st = "got"
    /\ delivered[d] # UnmarshalError
    /\ LET r == startScript(nextID, d) IN
       /\ ptr' = r.ptr
       /\ nextID' = IF r.out = 0 THEN nextID + 1 ELSE nextID
       /\ exec' = [exec EXCEPT ![d].st = "started", ![d].out = r.out,
                                ![d].res = StartResult(r.out)]
       /\ rotated' = IF r.out = 0 THEN (d :> nextID) @@ rotated ELSE rotated
    /\ UNCHANGED <<now, cfg, keys, items, queue, callVars, delivered, created, reached,
                   lastAcc, enq, arrived, burst>>

\* (variant: a missing field is an error)
DeleteResultStrict(found) == IF found THEN "nil" ELSE "error removing debounce"

\* DeleteDebounceItem returns nil whether or not the field was there
DeleteResult(found) == "nil"

\* the run is scheduled: the item is deleted and the job leaves the queue; the
\* executor may call DeleteDebounceItem again for the same id
DeleteDebounceItem(d) ==
    /\ d \in DOMAIN exec /\ exec[d].st \in {"started", "finished"}
    /\ exec[d].dels < MaxDeletes
    /\ items' = Hdel(d)
    /\ queue' = IF exec[d].st = "started" THEN Dequeued(d) ELSE queue
    /\ exec' = [exec EXCEPT ![d].st = "finished", ![d].dels = @ + 1,
                             ![d].dres = DeleteResult(d \in DOMAIN items)]
    /\ UNCHANGED <<now, cfg, keys, ptr, nextID, callVars, delivered, histVars>>

----------------------------------------------------------------------------
JobIDs == 1..(nextID - 1)

Step ==
    \/ \E p \in Calls : Debounce(p)
    \/ \E p \in Calls : newDebounce(p)
    \/ \E p \in Calls : newDebounceEnqueue(p)
    \/ \E p \in Calls : updateDebounce(p)
    \/ \E p \in Calls : updateDebounceEnqueue(p)
    \/ \E p \in Calls : updateDebounceRequeue(p)
    \/ \E p \in Calls : RetryWake(p)
    \/ \E d \in JobIDs : JobLease(d)
    \/ \E d \in JobIDs : GetDebounceItem(d)
    \/ \E d \in JobIDs : StartExecution(d)
    \/ \E d \in JobIDs : DeleteDebounceItem(d)

Next == Tick \/ Step

Spec == Init /\ [][Next]_vars

----------------------------------------------------------------------------
(* Faults of the environment: a stored payload is damaged while its job is *)
(* with the executor, and a job is handled again after its item was        *)
(* deleted.                                                                *)

CorruptItem(d) ==
    /\ d \in DOMAIN exec /\ exec[d].st = "leased"
    /\ d \in DOMAIN items
    /\ ptr = NoPtr \/ ptr.id # d
    /\ items' = [items EXCEPT ![d] = Garbage]
    /\ UNCHANGED <<now, cfg, keys, ptr, queue, nextID, callVars, execVars, histVars>>

\* GetDebounceItem for an id whose run was scheduled and whose item was deleted
GetDebounceItemAgain(d) ==
    /\ d \in DOMAIN exec /\ exec[d].st = "finished"
    /\ delivered' = (d :> GetResult(d)) @@ delivered
    /\ exec' = [exec EXCEPT ![d].st = "reread"]
    /\ UNCHANGED <<now, cfg, keys, ptr, items, queue, nextID, callVars, histVars>>

\* what GetDebounceItem would hand back if it returned the error of the store call
TransportError == [ev |-> -3, ts |-> 0, t |-> 0]

\* rueidis.IsRedisNil(err)
IsRedisNil(err) == err = "redis nil"

\* GetDebounceItem with the bytes and the error of the HGET: only redis nil is
\* looked at, then json.Unmarshal(byt, &di) runs on whatever bytes came back
GetResultOf(byt, err) ==
    IF IsRedisNil(err) THEN NotFound
    ELSE IF byt \in {Garbage, NotFound} THEN UnmarshalError
    ELSE byt

\* GetDebounceItem while the store is unreachable: the client hands back no
\* bytes and the transport error
GetDebounceItemUnreachable(d) ==
    /\ d \in DOMAIN exec /\ exec[d].st = "leased"
    /\ delivered' = (d :> GetResultOf(NotFound, ErrTransport)) @@ delivered
    /\ exec' = [exec EXCEPT ![d].st = "got"]
    /\ UNCHANGED <<now, cfg, keys, ptr, items, queue, nextID, callVars, histVars>>

\* the caller cancels its context while the call is in the retry wait
Cancel(p) ==
    /\ pc[p] = "wait"
    /\ ctx[p] = "live"
    /\ ctx' = [ctx EXCEPT ![p] = "canceled"]
    /\ UNCHANGED <<now, cfg, keys, ptr, items, queue, nextID, pc, ev, cnow, did, out, n,
                   res, wake, execVars, histVars>>

\* the error a store call returns without reaching the store
StoreError(p) == IF ctx[p] = "canceled" THEN Canceled ELSE ErrTransport

\* newDebounce: the script call fails (store unreachable, or context canceled)
newDebounceFails(p) ==
    /\ pc[p] = "new"
    /\ Return(p, Wrap("error creating debounce", StoreError(p)))
    /\ UNCHANGED <<now, cfg, keys, ptr, items, queue, nextID, ev, cnow, did, out, n, ctx,
                   execVars, histVars>>

\* newDebounce: the script created the debounce and Enqueue fails
newDebounceEnqueueFails(p) ==
    /\ pc[p] = "enqueue"
    /\ Return(p, Wrap("error enqueueing debounce job", ErrTransport))
    /\ UNCHANGED <<now, cfg, keys, ptr, items, queue, nextID, ev, cnow, did, out, n, ctx,
                   execVars, histVars>>

\* updateDebounce: the script call fails (store unreachable)
updateDebounceFails(p) ==
    /\ pc[p] = "update"
    /\ InDeadline(p)
    /\ AfterUpdate(p, Wrap("error creating debounce", ErrTransport))
    /\ UNCHANGED <<now, cfg, keys, ptr, items, queue, nextID, ev, cnow, did, out, n, ctx,
                   execVars, histVars>>

NextFault ==
    \/ Next
    \/ \E d \in JobIDs : CorruptItem(d)
    \/ \E d \in JobIDs : GetDebounceItemAgain(d)
    \/ \E p \in Calls : Cancel(p)
    \/ \E p \in Calls : newDebounceFails(p)
    \/ \E p \in Calls : newDebounceEnqueueFails(p)
    \/ \E p \in Calls : updateDebounceFails(p)

SpecFault == Init /\ [][NextFault]_vars

\* a second StartExecution call for the same debounce id (the job was handed
\* to two executors); the scripts of the two calls run one after the other
StartExecutionAgain(d) ==
    /\ d \in DOMAIN exec /\ exec[d].st \in {"started", "finished"}
    /\ exec[d].out2 = NoOut
    /\ LET r == startScript(nextID, d) IN
       /\ ptr' = r.ptr
       /\ nextID' = IF r.out = 0 THEN nextID + 1 ELSE nextID
       /\ exec' = [exec EXCEPT ![d].out2 = r.out, ![d].res2 = StartResult(r.out)]
       /\ rotated' = IF r.out = 0 THEN (d :> nextID) @@ rotated ELSE rotated
    /\ UNCHANGED <<now, cfg, keys, items, queue, callVars, delivered, created, reached,
                   lastAcc, enq, arrived, burst>>

\* the runs in which the store may be unreachable when the executor reads the
\* item, and a job may be handed to two executors
NextDown ==
    \/ Next
    \/ \E d \in JobIDs : GetDebounceItemUnreachable(d)
    \/ \E d \in JobIDs : StartExecutionAgain(d)

SpecDown == Init /\ [][NextDown]_vars

----------------------------------------------------------------------------
(* Long runs of one function: time goes on to MaxTicksLong ticks, and the   *)
(* 5s deadline of updateDebounce can be reached.  The runs begin when the   *)
(* job of a debounce is due while its pointer is live: call 1 took its      *)
(* time, its script created the debounce ttl+buffer+1s after the call       *)
(* began, at time 0, its job was enqueued already due, and it returned.     *)
(* The job is leased already, or waits to be leased.                        *)

EarlierID == 1

EarlierAt == 0 - (ParseDuration(LongConfig.period) + buffer + Second)

InitLong ==
    /\ cfg = LongConfig
    /\ keys = KeysOfFn
    /\ now = 0
    /\ ptr = [id |-> EarlierID, exp |-> TtlSeconds(Ttl) * Second]
    /\ items = (EarlierID :> [ev |-> 1, ts |-> 1, t |-> 0])
    /\ \E l \in BOOLEAN :
          /\ queue = (EarlierID :> [at |-> EnqueueAt(EarlierAt, Ttl), leased |-> l,
                                   item |-> queueItem(1, EarlierID)])
          /\ exec = IF l THEN (EarlierID :> [st |-> "leased", fires |-> 1, out |-> NoOut,
                                            res |-> "none", dels |-> 0, dres |-> "none",
                       out2 |-> NoOut, res2 |-> "none"])
                    ELSE <<>>
    /\ nextID = EarlierID + 1
    /\ pc = [p \in Calls |-> IF p = 1 THEN "done" ELSE "idle"]
    /\ ev = [p \in Calls |-> IF p = 1 THEN 1 ELSE 0]
    /\ cnow = [p \in Calls |-> IF p = 1 THEN EarlierAt ELSE 0]
    /\ did = [p \in Calls |-> IF p = 1 THEN EarlierID ELSE NoID]
    /\ out = [p \in Calls |-> NoOut]
    /\ n = [p \in Calls |-> 0]
    /\ res = [p \in Calls |-> IF p = 1 THEN Nil ELSE "none"]
    /\ wake = [p \in Calls |-> 0]
    /\ ctx = [p \in Calls |-> "live"]
    /\ delivered = <<>>
    /\ created = (EarlierID :> [at |-> EarlierAt, timeout |-> 0])
    /\ reached = (EarlierID :> <<1>>)
    /\ lastAcc = (EarlierID :> [at |-> 0, eff |-> TtlSeconds(Ttl), by |-> 1])
    /\ enq = (EarlierID :> 1)
    /\ rotated = <<>>
    /\ arrived = [p \in Calls |-> {}]
    /\ burst = TRUE

TickLong == Advance(MaxTicksLong)

\* updateDebounce: the deadline passes before the script call returns
updateDebounceDeadline(p) ==
    /\ pc[p] = "update"
    /\ ~InDeadline(p)
    /\ AfterUpdate(p, Wrap("error creating debounce", DeadlineExceeded))
    /\ UNCHANGED <<now, cfg, keys, ptr, items, queue, nextID, ev, cnow, did, out, n, ctx,
                   execVars, histVars>>

\* updateDebounce: the deadline passes before RequeueByJobID returns
updateDebounceRequeueDeadline(p) ==
    /\ pc[p] = "requeue"
    /\ ~InDeadline(p)
    /\ AfterUpdate(p, Wrap("error requeueing debounce job", DeadlineExceeded))
    /\ UNCHANGED <<now, cfg, keys, ptr, items, queue, nextID, ev, cnow, did, out, n, ctx,
                   execVars, histVars>>

\* updateDebounce, case -3: the deadline passes before Enqueue returns; the
\* queue hands back the context's error as it is or wrapped
updateDebounceEnqueueDeadline(p) ==
    /\ pc[p] = "reenqueue"
    /\ ~InDeadline(p)
    /\ \E err \in {DeadlineExceeded, Wrap("error enqueueing item", DeadlineExceeded)} :
          AfterUpdate(p, err)
    /\ UNCHANGED <<now, cfg, keys, ptr, items, queue, nextID, ev, cnow, did, out, n, ctx,
                   execVars, histVars>>

NextLong ==
    \/ TickLong
    \/ Step
    \/ \E p \in Calls : updateDebounceDeadline(p)
    \/ \E p \in Calls : updateDebounceRequeueDeadline(p)
    \/ \E p \in Calls : updateDebounceEnqueueDeadline(p)

SpecLong == InitLong /\ [][NextLong]_vars

----------------------------------------------------------------------------
(* Helpers of the properties *)

MaxOf(S) == CHOOSE x \in S : \A y \in S : y <= x

\* the call whose event has the highest timestamp in sq, the last such in script order
LastMax(sq) ==
    LET top == MaxOf({ev[sq[i]] : i \in 1..Len(sq)})
        idx == MaxOf({i \in 1..Len(sq) : ev[sq[i]] = top})
    IN sq[idx]

S3Config == [period |-> "5s", timeout |-> 2 * Second]

Started == {p \in Calls : pc[p] # "idle"}

Range(sq) == {sq[i] : i \in 1..Len(sq)}

\* every call made so far arrived while the window was open, ran without delay
\* and has returned
BurstDone ==
    /\ burst
    /\ ConfigError(cfg) = Nil
    /\ Started # {}
    /\ \A p \in Started : pc[p] = "done"

\* a call is between its update script and the queue call that follows it
InFlight(d) ==
    \E p \in Calls : did[p] = d /\ pc[p] \in {"enqueue", "reenqueue", "requeue"}

----------------------------------------------------------------------------
C2_FullPeriodAfterLastEvent ==
    \A d \in DOMAIN queue :
        ( /\ d \in DOMAIN lastAcc
          /\ lastAcc[d].by # reached[d][1]
          /\ ~InFlight(d)
          /\ ~queue[d].leased
          /\ lastAcc[d].eff = Ttl \div Second )
        => queue[d].at >= lastAcc[d].at + lastAcc[d].eff * Second

\* C3: checking for and creating a debounce is atomic.  A newDebounce call that
\* runs while no pointer exists gets the created result, writes the pointer and
\* its own item and goes on to enqueue the job; a call that runs while a pointer
\* exists gets the existing debounce id, changes neither pointer nor item map
\* and goes on to the update path; the creator's next step puts the job in the
\* queue.
C3_AtomicCreate ==
    [][\A p \in Calls :
        /\ (pc[p] = "new" /\ pc'[p] # "new") =>
             IF ptr = NoPtr
             THEN /\ pc'[p] = "enqueue"
                  /\ ptr'.id = did'[p]
                  /\ did'[p] \notin DOMAIN items
                  /\ did'[p] \in DOMAIN items' /\ items'[did'[p]].ev = p
                  /\ \A q \in Calls \ {p} : did'[p] # did[q]
             ELSE /\ pc'[p] = "update"
                  /\ did'[p] = ptr.id
                  /\ ptr' = ptr /\ items' = items
        /\ (pc[p] = "enqueue" /\ pc'[p] # "enqueue") =>
             (did[p] \in DOMAIN queue' /\ pc'[p] = "done")
      ]_vars

\* two concurrent calls: one created and has not enqueued yet, the other was
\* handed the creator's debounce id
C3_Witness ==
    \E p, q \in Calls :
        /\ p # q
        /\ pc[q] = "enqueue"
        /\ pc[p] = "update"
        /\ did[p] = did[q]

\* C4: event-timestamp monotonicity.  No step replaces the stored item of a
\* debounce by an item whose event timestamp is lower.
C4_TimestampMonotonic ==
    [][\A d \in DOMAIN items :
        (d \in DOMAIN items' /\ items'[d] # items[d]) => items'[d].ts >= items[d].ts
      ]_vars

\* an older event arrived second, got -2, and the stored item is still the newer one
C4_Witness ==
    \E p \in Calls :
        /\ pc[p] = "done" /\ out[p] = -2
        /\ did[p] \in DOMAIN items
        /\ items[did[p]].ev # p
        /\ items[did[p]].ts > ev[p]

\* C5: the stored item of a debounce is the event with the highest timestamp
\* among the events that reached the script for it; among equal highest
\* timestamps it is the one whose script ran last.
C5_StoredIsLatest ==
    \A d \in DOMAIN items :
        d \in DOMAIN reached => items[d].ev = LastMax(reached[d])

\* two events with the same timestamp reached the script; the second is stored
C5_Witness ==
    \E d \in DOMAIN items :
        /\ d \in DOMAIN reached
        /\ Len(reached[d]) = 2
        /\ reached[d][1] # reached[d][2]
        /\ ev[reached[d][1]] = ev[reached[d][2]]
        /\ items[d].ev = reached[d][2]

\* C6: an out-of-order event makes Debounce return nil at once: no retry, and
\* the queue is what it was.
C6_OutOfOrderIgnored ==
    [][\A p \in Calls :
        ( /\ pc[p] = "update" /\ pc'[p] # "update"
          /\ ptr # NoPtr /\ ptr.id \in DOMAIN items
          /\ items[ptr.id].ts > ev[p] )
        => ( /\ pc'[p] = "done" /\ res'[p] = "nil"
             /\ n'[p] = n[p]
             /\ queue' = queue
             /\ items' = items )
      ]_vars

\* an older event was ignored while the job of its debounce is pending
C6_Witness ==
    \E p \in Calls :
        /\ pc[p] = "done" /\ out[p] = -2 /\ res[p] = "nil"
        /\ did[p] \in DOMAIN queue /\ ~queue[did[p]].leased
        /\ did[p] \in DOMAIN items /\ items[did[p]].ts > ev[p]

\* C7 (as stated): the job of a debounce is never scheduled later than
\* created_at + timeout.
C7_FiresByTimeout ==
    \A d \in DOMAIN queue :
        (d \in DOMAIN created /\ created[d].timeout # 0)
        => queue[d].at <= created[d].at + created[d].timeout

\* C8 (as stated): the stored item's timeout_ms is the one newDebounce wrote.
C8_TimeoutFixed ==
    \A d \in DOMAIN items :
        d \in DOMAIN created
        => items[d].t = ItemTimeout(created[d].at, created[d].timeout)

\* C9 (as stated): a successful update script returns a strictly positive
\* number of seconds.
C9_PositiveTTL ==
    \A d \in DOMAIN lastAcc : lastAcc[d].eff > 0

\* scenario S3: ttl=5s, timeout=2s, E1 creates the debounce at t=0, E2 updates
\* it at t=1.5s and has returned nil, no other call was made
S3Done(d) ==
    /\ cfg = S3Config
    /\ Started = {1, 2}
    /\ pc[1] = "done" /\ pc[2] = "done"
    /\ did[1] = d /\ did[2] = d
    /\ d \in DOMAIN created /\ created[d].at = 0
    /\ ev[1] <= ev[2]
    /\ n[2] = 0 /\ cnow[2] = 3 * TickMs
    /\ res[1] = "nil" /\ res[2] = "nil"
    /\ d \in DOMAIN queue /\ ~queue[d].leased

----------------------------------------------------------------------------
\* C11 (as stated): once StartExecution has rotated the pointer away from a
\* debounce id, no step overwrites the item stored under that id, moves the job
\* of that id to another time, or puts a new job with that id in the queue.
C11_NoTouchAfterRotation ==
    [][\A d \in DOMAIN rotated :
        /\ (d \in DOMAIN items /\ d \in DOMAIN items') => items'[d] = items[d]
        /\ (d \in DOMAIN queue /\ d \in DOMAIN queue') => queue'[d].at = queue[d].at
        /\ d \notin DOMAIN queue => d \notin DOMAIN queue'
      ]_vars

\* C12: startExecution is a compare-and-set on the pointer.  When the pointer
\* holds the debounce id of the fired job it becomes a fresh id and the script
\* answers 0; when it holds another id or is absent it is left as it is and the
\* script answers 1.  StartExecution returns nil for 0 and 1 and an error for
\* every other answer.
C12_StartIsCAS ==
    [][\A d \in DOMAIN exec :
        (exec[d].st = "got" /\ exec'[d].st = "started") =>
            /\ IF ptr # NoPtr /\ ptr.id = d
               THEN /\ exec'[d].out = 0
                    /\ ptr'.id # d
                    /\ ptr'.id \notin JobIDs
                    /\ ptr'.id \in 1..(nextID' - 1)
               ELSE /\ exec'[d].out = 1
                    /\ ptr' = ptr
            /\ exec'[d].res = "nil"
            /\ \A o \in -3..3 : (StartResult(o) = "nil") <=> (o \in {0, 1})
      ]_vars

\* StartExecution ran for a job whose pointer had expired and meanwhile holds
\* the id of a younger debounce: the script answered 1, the call returned nil
\* and the younger debounce still owns the pointer
C12_Witness ==
    \E d \in DOMAIN exec :
        /\ exec[d].st = "started" /\ exec[d].out = 1 /\ exec[d].res = "nil"
        /\ ptr # NoPtr /\ ptr.id # d /\ ptr.id \in DOMAIN items

\* C13: StartExecution leaves the item map unchanged, and from the moment it
\* returned until DeleteDebounceItem is called for the id, no step changes the
\* item stored under the id of the run: it stays the item GetDebounceItem
\* returned, whatever Debounce calls do in between.
C13_ItemKeptWhileExecuting ==
    [][\A d \in DOMAIN exec :
        /\ (exec[d].st = "got" /\ exec'[d].st = "started") => items' = items
        /\ (exec[d].st = "started" /\ exec'[d].st = "started" /\ d \in DOMAIN items)
              => (d \in DOMAIN items' /\ items'[d] = items[d])
        /\ (exec'[d].st = "started" /\ delivered'[d] # NotFound)
              => (d \in DOMAIN items' /\ items'[d] = delivered'[d])
      ]_vars

\* the pointer was rotated away from a run's id, a Debounce call that arrived
\* after the rotation has returned, and the run's item is still the one the
\* executor read
C13_Witness ==
    \E d \in DOMAIN rotated : \E p \in Calls :
        /\ exec[d].st = "started"
        /\ d \in arrived[p] /\ pc[p] = "done"
        /\ d \in DOMAIN items /\ items[d] = delivered[d] /\ items[d].ev # p

\* C14 (as stated): a Debounce call that arrived after StartExecution had
\* returned for a debounce id and that returned nil works under another
\* debounce id, and that debounce has its own item holding the call's event (or
\* a newer one) and its own job in the queue.
C14_NewDebounceAfterStart ==
    \A p \in Calls : \A d \in arrived[p] :
        (pc[p] = "done" /\ res[p] = "nil" /\ out[p] # -2 /\ Fires(did[p]) = 0)
        => /\ did[p] # d
           /\ did[p] \in DOMAIN items
           /\ items[did[p]].ts >= ev[p]
           /\ did[p] \in DOMAIN queue

\* C15 (as stated): when newDebounce of a Debounce call runs right after
\* StartExecution rotated the pointer, while that run is executing, it succeeds:
\* the call goes on to enqueue its own job under an id that holds its event as
\* item, and the item of the executing run is not touched.
C15_RaceCreatesNewWindow ==
    [][\A p \in Calls : \A d \in DOMAIN rotated :
        ( /\ pc[p] = "new" /\ pc'[p] # "new"
          /\ exec[d].st = "started"
          /\ ptr # NoPtr /\ ptr.id = rotated[d] )
        => /\ pc'[p] = "enqueue"
           /\ did'[p] \in DOMAIN items' /\ items'[did'[p]].ev = p
           /\ d \in DOMAIN items => (d \in DOMAIN items' /\ items'[d] = items[d])
      ]_vars

S1Config == [period |-> "1s", timeout |-> 0]

\* scenario S1: ttl=1s, one Debounce at t=0 that ran without delay and returned
\* nil, no further call
S1Done(d) ==
    /\ cfg = S1Config
    /\ Started = {1}
    /\ pc[1] = "done" /\ res[1] = "nil"
    /\ did[1] = d
    /\ d \in DOMAIN created /\ created[d].at = 0 /\ lastAcc[d].at = 0

\* C16 (as stated): the job is enqueued at 1.05s, and when it has fired
\* GetDebounceItem returned E1, StartExecution returned nil with script result 0
\* and the pointer is rotated.
C16_S1AsStated ==
    \A d \in DOMAIN created :
        S1Done(d) =>
            /\ d \in DOMAIN queue => queue[d].at = Second + buffer
            /\ (d \in DOMAIN exec /\ exec[d].st = "started") =>
                  /\ delivered[d].ev = 1
                  /\ exec[d].res = "nil" /\ exec[d].out = 0
                  /\ d \in DOMAIN rotated /\ ptr.id = rotated[d]

\* C16 (amended): the pointer exists until it expires at t=1s, the job is
\* enqueued at 1s + buffer + 1s = 2.05s and does not fire before; when it has
\* fired GetDebounceItem returned E1, StartExecution returned nil with script
\* result 1, and the pointer stays absent.
C16_S1SingleEvent ==
    \A d \in DOMAIN created :
        S1Done(d) =>
            /\ d \in DOMAIN queue => queue[d].at = Second + buffer + Second
            /\ now < Second => (ptr # NoPtr /\ ptr.id = d)
            /\ now >= Second => ptr = NoPtr
            /\ d \in DOMAIN exec =>
                  /\ now >= Second + buffer + Second
                  /\ exec[d].st # "leased" => delivered[d] = [ev |-> 1, ts |-> ev[1], t |-> 0]
                  /\ exec[d].st \in {"started", "finished"} =>
                        /\ exec[d].res = "nil" /\ exec[d].out = 1
                        /\ d \notin DOMAIN rotated

\* the single event's job fired and StartExecution has returned
C16_Witness ==
    \E d \in DOMAIN exec :
        S1Done(d) /\ exec[d].st = "started" /\ delivered[d].ev = 1 /\ Fires(d) = 1

\* C17 (as stated): a present pointer value identifies an entry of the item map
\* and an outstanding job in the delay queue.
C17_PointerBacked ==
    ptr # NoPtr => (ptr.id \in DOMAIN items /\ ptr.id \in DOMAIN queue)

\* the debounce is being executed: its job is leased by the executor
Executing(d) == d \in DOMAIN queue /\ queue[d].leased

\* its creator is between the script and the Enqueue that follows it
Creating(d) == \E p \in Calls : did[p] = d /\ pc[p] = "enqueue"

C19_DeleteIdempotent ==
    [][\A d \in DOMAIN exec :
        (exec'[d].dels = exec[d].dels + 1) =>
            /\ exec'[d].dres = "nil"
            /\ ptr' = ptr
            /\ DOMAIN items' = (DOMAIN items) \ {d}
            /\ \A x \in DOMAIN items' : items'[x] = items[x]
            /\ d \notin DOMAIN items => (items' = items /\ queue' = queue)
            /\ exec[d].dels >= 1 => d \notin DOMAIN items
      ]_vars

\* DeleteDebounceItem was called twice for a debounce id while a younger
\* debounce holds the pointer and has its item in the map
C19_Witness ==
    \E d \in DOMAIN exec :
        /\ exec[d].dels = 2 /\ exec[d].dres = "nil"
        /\ d \notin DOMAIN items
        /\ ptr # NoPtr /\ ptr.id \in DOMAIN items

\* C20: GetDebounceItem returns the NotFound sentinel exactly when the item map
\* has no field for the id, as it is after DeleteDebounceItem for that id; it
\* returns the stored item when the payload decodes and a deserialization
\* error when it does not; it changes neither pointer nor item map nor queue.
C20_GetResults ==
    [][\A d \in DOMAIN exec :
        ( \/ exec[d].st = "leased" /\ exec'[d].st = "got"
          \/ exec[d].st = "finished" /\ exec'[d].st = "reread" )
        => /\ (delivered'[d] = NotFound) <=> (d \notin DOMAIN items)
           /\ (d \in DOMAIN items /\ items[d] # Garbage) => delivered'[d] = items[d]
           /\ (d \in DOMAIN items /\ items[d] = Garbage) => delivered'[d] = UnmarshalError
           /\ exec[d].st = "finished" => delivered'[d] = NotFound
           /\ ptr' = ptr /\ items' = items /\ queue' = queue
      ]_vars

\* one job's payload was damaged and its read returned the deserialization
\* error, another job's item was read again after its deletion and not found
C20_Witness ==
    \E d, e \in DOMAIN exec :
        /\ exec[d].st = "got" /\ delivered[d] = UnmarshalError
        /\ exec[e].st = "reread" /\ delivered[e] = NotFound

----------------------------------------------------------------------------
\* C21: when the function has no debounce config or its period does not parse,
\* Debounce returns the configuration error in the step it is called, and no
\* script and no queue operation runs: pointer, item map and delay queue stay
\* as they were (empty, as no call of such a function ever touches them).
C21_InvalidConfig ==
    [][\A p \in Calls :
        (cfg \in {NoDebounce, BadPeriod} /\ pc[p] = "idle" /\ pc'[p] # "idle")
        => /\ pc'[p] = "done"
           /\ res'[p] = (IF cfg = NoDebounce THEN ErrNoConfig
                         ELSE Wrap("invalid debounce duration", ErrParse))
           /\ ptr' = ptr /\ items' = items /\ queue' = queue
           /\ ptr' = NoPtr /\ items' = <<>> /\ queue' = <<>>
           /\ nextID' = 1
      ]_vars

\* every call for a function whose period does not parse has returned the error
C21_Witness ==
    /\ cfg = BadPeriod
    /\ \A p \in Calls : pc[p] = "done" /\ res[p] = Wrap("invalid debounce duration", ErrParse)
    /\ ptr = NoPtr /\ items = <<>> /\ queue = <<>>

----------------------------------------------------------------------------
C23_DeadlineRetried ==
    [][\A p \in Calls :
          (pc[p] \in {"update", "requeue"} /\ ~InDeadline(p) /\ pc'[p] # pc[p])
             => \/ pc'[p] = "wait" /\ wake'[p] = now + RetryWait
                \/ /\ n[p] = MaxRetries
                   /\ pc'[p] = "done"
                   /\ res'[p] = Wrap("unable to update debounce",
                                     Wrap("error creating debounce", DeadlineExceeded))
      ]_vars

(***************************************************************************)
(* C24: an error of newDebounce other than ErrDebounceExists, and an error *)
(* of updateDebounce other than ErrDebounceInProgress, ErrDebounceNotFound *)
(* or the deadline signal, is fatal: a call enters the retry wait only     *)
(* when the script answered -1 or the job was leased at the requeue; every *)
(* other failure (store transport error, Enqueue error, requeue of a job   *)
(* that is not found) ends the call in that attempt with that error.       *)
(***************************************************************************)
FatalErrors ==
    { Wrap("error creating debounce", ErrTransport),
      Wrap("error creating debounce", Canceled),
      Wrap("error enqueueing debounce job", ErrTransport),
      Wrap("error enqueueing debounce job", ErrQueueItemExists),
      Wrap("error requeueing debounce job", ErrQueueItemNotFound),
      ErrQueueItemExists }

C24_OtherErrorsFatal ==
    [][\A p \in Calls :
          /\ (pc[p] # "wait" /\ pc'[p] = "wait")
                => \/ /\ pc[p] = "update"
                      /\ updateDebounceScript(did[p], UpdateItem(p), TtlSeconds(Ttl),
                                              cnow[p], IncomingEventMs(p)).out = -1
                      /\ out'[p] = -1
                   \/ pc[p] = "requeue" /\ RequeueResult(did[p]) = "leased"
          /\ (pc[p] = "requeue" /\ RequeueResult(did[p]) = "notfound" /\ pc'[p] # pc[p])
                => /\ pc'[p] = "done"
                   /\ res'[p] = Wrap("error requeueing debounce job", ErrQueueItemNotFound)
                   /\ n'[p] = n[p]
          /\ (pc[p] \in {"new", "enqueue"} /\ pc'[p] # pc[p])
                => pc'[p] \in {"enqueue", "update", "done"}
          /\ (pc[p] # "done" /\ pc'[p] = "done" /\ res'[p] # Nil)
                => /\ res'[p] \in FatalErrors
                        \cup {ErrNoConfig, Wrap("invalid debounce duration", ErrParse),
                              Wrap("unable to update debounce", ErrDebounceInProgress)}
                   /\ n'[p] = n[p]
                   /\ res'[p] \in FatalErrors => wake'[p] = wake[p]
      ]_vars

\* a call ended in its first attempt with a fatal error of updateDebounce
C24_Witness ==
    \E p \in Calls :
        /\ pc[p] = "done"
        /\ n[p] = 0
        /\ res[p] = Wrap("error requeueing debounce job", ErrQueueItemNotFound)

(***************************************************************************)
(* C25: when the caller's context is cancelled while the call is in the    *)
(* retry wait, the call leaves the wait only by returning the cancellation *)
(* error: it starts no further newDebounce/updateDebounce attempt.         *)
(***************************************************************************)
C25_CancelAbortsWait ==
    [][\A p \in Calls :
          (pc[p] = "wait" /\ ctx[p] = "canceled" /\ pc'[p] # "wait")
             => /\ pc'[p] = "done"
                /\ res'[p] = Canceled
                /\ n'[p] = n[p]
      ]_vars

(***************************************************************************)
(* C26: ErrDebounceExists is internal: no call of Debounce,                *)
(* GetDebounceItem, DeleteDebounceItem or StartExecution returns it, bare  *)
(* or wrapped, whatever the store and the queue answer.  (GetDebounceItem  *)
(* hands back an item, NotFound or UnmarshalError: see GetResult.)         *)
(***************************************************************************)
WrapMessages ==
    { "unable to update debounce", "error creating debounce",
      "error enqueueing debounce job", "error requeueing debounce job",
      "invalid debounce duration" }

ExistsSurfaced ==
    {ErrDebounceExists}
      \cup {Wrap(m, ErrDebounceExists) : m \in WrapMessages}
      \cup {Wrap(m1, Wrap(m2, ErrDebounceExists)) : m1, m2 \in WrapMessages}

C26_ExistsNeverSurfaced ==
    /\ \A p \in Calls : res[p] \notin ExistsSurfaced
    /\ \A d \in DOMAIN exec : exec[d].res \notin ExistsSurfaced
                              /\ exec[d].dres \notin ExistsSurfaced

\* a call whose newDebounce answered ErrDebounceExists has returned
C26_Witness ==
    \E p \in Calls :
        /\ pc[p] = "done"
        /\ did[p] # NoID
        /\ did[p] \in DOMAIN created /\ created[did[p]].at # cnow[p]
        /\ out[p] # NoOut
        /\ res[p] \in {Nil, Wrap("error requeueing debounce job", ErrQueueItemNotFound)}

(***************************************************************************)
(* C27: ghost pointer.  When the pointer is present and no item is stored  *)
(* under its id, updateDebounce answers -3, the coordinator enqueues a     *)
(* fresh job under that id, and the new item is written: while that job    *)
(* waits, the item of its id is the event of the call, and when it fires   *)
(* GetDebounceItem does not answer NotFound.                               *)
(***************************************************************************)
C27_GhostPointerItemWritten ==
    /\ \A p \in Calls :
          (pc[p] = "done" /\ out[p] = -3 /\ res[p] = Nil
             /\ did[p] \in DOMAIN queue /\ ~queue[did[p]].leased)
          => /\ did[p] \in DOMAIN items
             /\ items[did[p]].ts = ev[p]
    /\ \A p \in Calls :
          (pc[p] = "done" /\ out[p] = -3 /\ res[p] = Nil /\ did[p] \in DOMAIN delivered)
          => delivered[did[p]] # NotFound

(***************************************************************************)
(* C28: a successful requeue supersedes the prior schedule.  The step in   *)
(* which an update's RequeueByJobID to T' succeeds leaves the queue with   *)
(* the same jobs, the job of that debounce id scheduled at T' and no other *)
(* job changed; and a job is leased only when its current schedule is due, *)
(* whatever it was scheduled at before.                                    *)
(***************************************************************************)
C28_RequeueSupersedes ==
    [][/\ \A p \in Calls :
            (pc[p] = "requeue" /\ pc'[p] = "done" /\ res'[p] = Nil)
            => /\ DOMAIN queue' = DOMAIN queue
               /\ queue'[did[p]].at = RequeueAt(cnow[p], out[p])
               /\ ~queue'[did[p]].leased
               /\ \A d \in DOMAIN queue : d # did[p] => queue'[d] = queue[d]
       /\ \A d \in DOMAIN queue :
            (~queue[d].leased /\ d \in DOMAIN queue' /\ queue'[d].leased)
            => now >= queue[d].at
       /\ \A d \in DOMAIN queue :
            (d \in DOMAIN queue' /\ queue'[d].at # queue[d].at)
            => \E p \in Calls : pc[p] = "requeue" /\ did[p] = d /\ res'[p] = Nil
      ]_vars

\* a job that was moved by a requeue has been leased at its new time
C28_Witness ==
    \E p \in Calls :
        /\ pc[p] = "done" /\ res[p] = Nil /\ out[p] > 0
        /\ did[p] \in DOMAIN queue
        /\ queue[did[p]].leased
        /\ queue[did[p]].at = RequeueAt(cnow[p], out[p])
        /\ queue[did[p]].at > EnqueueAt(created[did[p]].at, Ttl)

(***************************************************************************)
(* C29: partial state is never stuck.  When a Debounce call created the    *)
(* pointer and the item and failed before its job was enqueued, the item   *)
(* stays in the store and the debounce can still get to its end: it was    *)
(* updated by a later event, or its pointer is still there for a later     *)
(* event to update it, or it has a job in the queue that will deliver it,  *)
(* or it was delivered.                                                    *)
(***************************************************************************)
Partial(p) ==
    /\ pc[p] = "done"
    /\ res[p] = Wrap("error enqueueing debounce job", ErrTransport)
    /\ did[p] \in DOMAIN items

C29_PartialNeverStuck ==
    \A p \in Calls :
        Partial(p)
        => \/ lastAcc[did[p]].by # p
           \/ PtrLive /\ ptr.id = did[p]
           \/ did[p] \in DOMAIN queue
           \/ did[p] \in DOMAIN delivered

\* (the state that violates C29 is final for that debounce)
StuckStays ==
    [][\A p \in Calls :
          (Partial(p) /\ ~C29_PartialNeverStuck) => (Partial(p))' /\ ~(C29_PartialNeverStuck)'
      ]_vars

(***************************************************************************)
(* C30: the delayed job cannot fire mid-mutation.  While an updateDebounce *)
(* call for debounce id D is between its successful script execution and   *)
(* its requeue, the job of D is not leased; the call's deadline ends       *)
(* before the extra second of the schedule is over.                        *)
(***************************************************************************)
C30_NoFireMidMutation ==
    \A p \in Calls :
        pc[p] = "requeue"
        => /\ ~JobLeased(did[p])
           /\ did[p] \in DOMAIN queue => now < queue[did[p]].at

(***************************************************************************)
(* C31: every job the coordinator enqueues, on create and on the -3 path,  *)
(* has as job id the string form of the debounce id the call created or    *)
(* updated, kind Debounce, a payload with that debounce id and no event,   *)
(* and the scheduled time now + ttl + 50 ms + 1 s, now being taken at the  *)
(* start of that newDebounce or updateDebounce call.                       *)
(***************************************************************************)
C31_EnqueuedJob ==
    [][\A d \in DOMAIN queue' :
          d \notin DOMAIN queue
          => \E p \in Calls :
                /\ pc[p] \in {"enqueue", "reenqueue"}
                /\ pc'[p] = "done"
                /\ did[p] = d
                /\ queue'[d].item.JobID = IDString(d)
                /\ queue'[d].item.Kind = KindDebounce
                /\ queue'[d].item.Payload.DebounceID = d
                /\ DOMAIN queue'[d].item.Payload = {"DebounceID", "FunctionID"}
                /\ queue'[d].at = cnow[p] + Ttl + 50 + Second
                /\ ~queue'[d].leased
      ]_vars

\* both paths have enqueued a job: the create path for one id, the -3 path for another
C31_Witness ==
    \E p, q \in Calls :
        /\ pc[p] = "done" /\ res[p] = Nil /\ out[p] = NoOut /\ did[p] \in DOMAIN enq /\ enq[did[p]] > 0
        /\ pc[q] = "done" /\ res[q] = Nil /\ out[q] = -3 /\ did[q] \in DOMAIN queue
        /\ queue[did[q]].item.Payload.DebounceID = did[q]

(***************************************************************************)
(* C32: after a successful update script (result > 0) the coordinator      *)
(* requeues the job of the debounce id to now + effective TTL + buffer +   *)
(* 1 s; when the queue answers that the job is leased the call gets        *)
(* ErrDebounceInProgress and goes to the bounded retry loop: it returns    *)
(* neither success nor a fatal error, and the queue is left as it was.     *)
(***************************************************************************)
C32_RequeueOrInProgress ==
    [][\A p \in Calls :
          (pc[p] = "requeue" /\ out[p] > 0 /\ pc'[p] # pc[p])
          => /\ RequeueResult(did[p]) = "ok"
                  => /\ queue' = [queue EXCEPT ![did[p]].at =
                                      cnow[p] + out[p] * Second + buffer + Second]
                     /\ pc'[p] = "done" /\ res'[p] = Nil
             /\ RequeueResult(did[p]) = "leased"
                  => /\ queue' = queue
                     /\ IF n[p] < MaxRetries
                        THEN pc'[p] = "wait" /\ wake'[p] = now + RetryWait /\ res'[p] = res[p]
                        ELSE pc'[p] = "done"
                             /\ res'[p] = Wrap("unable to update debounce", ErrDebounceInProgress)
      ]_vars

\* a call waits for its retry because the job was leased when its requeue arrived
C32_Witness ==
    \E p \in Calls :
        /\ pc[p] = "wait"
        /\ out[p] > 0
        /\ JobLeased(did[p])

(***************************************************************************)
(* C33: updateDebounce changes the store only on success.  Whenever the    *)
(* script returns -1, -2 or -3, the item map and the pointer, value and    *)
(* expiry, are as before the call; and the item of a debounce whose job is *)
(* leased is not overwritten by the script.                                *)
(***************************************************************************)
C33_UpdateFrame ==
    [][\A p \in Calls :
          (pc[p] = "update" /\ pc'[p] # "update")
          => /\ out'[p] \in {-1, -2, -3} => (items' = items /\ ptr' = ptr)
             /\ \A d \in DOMAIN items : JobLeased(d) => items'[d] = items[d]
      ]_vars

----------------------------------------------------------------------------
(* debounceKey: the key of a debounce is derived from the function and the *)
(* event, in newDebounce/updateDebounce and in StartExecution.             *)

\* key expressions of a function: none, a string field, a number field, a
\* boolean field, a field the events do not have, and one that does not parse
KeyExprs == {NoExpr, "event.data.id", "event.data.count", "event.data.vip",
             "event.data.plan", "event.data."}

\* evt.GetEvent().Map(): the data of the events
EventData == [id : {"a", "b", "<invalid>"}, count : {0, 7, 42}, vip : BOOLEAN]

StringVal(s) == [type |-> "string", s |-> s, i |-> 0, b |-> FALSE]
IntVal(i)    == [type |-> "int", s |-> "", i |-> i, b |-> FALSE]
BoolVal(b)   == [type |-> "bool", s |-> "", i |-> 0, b |-> b]

ErrEvaluate == "error evaluating expression"

\* expressions.Evaluate(ctx, expr, {"event": ...}): [val, err]
Evaluate(expr, data) ==
    CASE expr = "event.data.id"    -> [val |-> StringVal(data.id), err |-> Nil]
      [] expr = "event.data.count" -> [val |-> IntVal(data.count), err |-> Nil]
      [] expr = "event.data.vip"   -> [val |-> BoolVal(data.vip), err |-> Nil]
      [] OTHER                     -> [val |-> StringVal(""), err |-> ErrEvaluate]

\* fmt.Sprintf("%v", out)
Sprintf(val) ==
    CASE val.type = "int"  -> ToString(val.i)
      [] val.type = "bool" -> IF val.b THEN "true" ELSE "false"
      [] OTHER             -> val.s

\* (variant: an expression that does not evaluate is an error of the call)
debounceKeyStrict(expr, data) ==
    IF expr = NoExpr
    THEN [key |-> FnID, err |-> Nil]
    ELSE LET r == Evaluate(expr, data) IN
         IF r.err # Nil THEN [key |-> "", err |-> r.err]
         ELSE IF r.val.type = "string" THEN [key |-> r.val.s, err |-> Nil]
         ELSE [key |-> Sprintf(r.val), err |-> Nil]

\* debounceKey(ctx, evt, fn): [key, err]
debounceKey(expr, data) ==
    IF expr = NoExpr
    THEN [key |-> FnID, err |-> Nil]
    ELSE LET r == Evaluate(expr, data) IN
         IF r.err # Nil THEN [key |-> "<invalid>", err |-> Nil]
         ELSE IF r.val.type = "string" THEN [key |-> r.val.s, err |-> Nil]
         ELSE [key |-> Sprintf(r.val), err |-> Nil]

InitKey ==
    /\ cfg = S1Config
    /\ InitRest
    /\ keys \in [expr : KeyExprs, data : EventData, debounce : {NoKey}, start : {NoKey}]

\* newDebounce, updateDebounce: key, err := d.debounceKey(ctx, di, fn)
debounceKeyInDebounce ==
    /\ keys.debounce = NoKey
    /\ keys' = [keys EXCEPT !.debounce = debounceKey(keys.expr, keys.data)]
    /\ UNCHANGED <<now, cfg, ptr, items, queue, nextID, callVars, execVars, histVars>>

\* StartExecution: dkey, err := d.debounceKey(ctx, di, fn)
debounceKeyInStartExecution ==
    /\ keys.start = NoKey
    /\ keys' = [keys EXCEPT !.start = debounceKey(keys.expr, keys.data)]
    /\ UNCHANGED <<now, cfg, ptr, items, queue, nextID, callVars, execVars, histVars>>

NextKey ==
    \/ debounceKeyInDebounce
    \/ debounceKeyInStartExecution

SpecKey == InitKey /\ [][NextKey]_vars

(***************************************************************************)
(* C34: the debounce key is a function of (function, event).  With no key  *)
(* expression it is the function id string; when the expression does not   *)
(* evaluate it is "<invalid>" and no error is returned; a string result is *)
(* used as it is and any other result is stringified; Debounce and         *)
(* StartExecution derive the same key for the same item and function.      *)
(***************************************************************************)
C34_DebounceKey ==
    /\ \A r \in {keys.debounce, keys.start} :
          r # NoKey
          => /\ r.err = Nil
             /\ keys.expr = NoExpr => r.key = FnID
             /\ keys.expr \in {"event.data.plan", "event.data."} => r.key = "<invalid>"
             /\ keys.expr = "event.data.id" => r.key = keys.data.id
             /\ keys.expr = "event.data.count" => r.key = ToString(keys.data.count)
             /\ keys.expr = "event.data.vip"
                   => r.key = (IF keys.data.vip THEN "true" ELSE "false")
    /\ (keys.debounce # NoKey /\ keys.start # NoKey) => keys.debounce = keys.start

\* both operations derived the key of an event whose expression does not evaluate
C34_Witness ==
    /\ keys.expr = "event.data.plan"
    /\ keys.debounce = [key |-> "<invalid>", err |-> Nil]
    /\ keys.start = keys.debounce

(***************************************************************************)
(* C35: when the store is unreachable, GetDebounceItem returns the         *)
(* transport error to its caller: not NotFound, not a deserialization      *)
(* error, and no item.                                                     *)
(***************************************************************************)
C35_GetPropagatesTransportError ==
    [][\A d \in DOMAIN exec :
          (exec[d].st = "leased" /\ exec'[d].st = "got" /\ d \in DOMAIN items
             /\ delivered'[d] # GetResult(d))
          => delivered'[d] = TransportError
      ]_vars

(***************************************************************************)
(* C36: of two StartExecution calls with the same current debounce id on   *)
(* the same key, the one whose script runs first finds the pointer equal   *)
(* to that id and rotates it (result 0); the other finds the pointer as    *)
(* the first left it and leaves it so (result 1).  The pointer is rotated  *)
(* once and holds the first caller's fresh id; both calls return nil.      *)
(***************************************************************************)
C36_OneRotation ==
    [][\A d \in DOMAIN exec :
          (exec[d].out = 0 /\ exec[d].out2 = NoOut /\ exec'[d].out2 # NoOut)
          => /\ exec'[d].out2 = 1
             /\ exec'[d].res2 = "nil" /\ exec'[d].res = "nil"
             /\ ptr' = ptr
             /\ ptr = [id |-> rotated[d], exp |-> NoExpiry]
             /\ rotated' = rotated
             /\ nextID' = nextID
      ]_vars

\* both calls have returned: the first rotated the pointer, the second did not
C36_Witness ==
    \E d \in DOMAIN exec :
        /\ exec[d].out = 0 /\ exec[d].res = "nil"
        /\ exec[d].out2 = 1 /\ exec[d].res2 = "nil"
        /\ ptr.id = rotated[d]

(***************************************************************************)
(* C37: no accepted event is lost.  With no store or queue failures, every *)
(* Debounce call that returned nil is followed by the firing of a delayed  *)
(* job for its key whose debounce id resolves (GetDebounceItem) to an      *)
(* event at least as new as the call's.  In the form of a state property:  *)
(* once the call has returned and the job of its debounce id has fired and *)
(* left the queue, an event at least as new as the call's has been handed  *)
(* to an executor, or is still stored under an id whose job is             *)
(* outstanding.                                                            *)
(***************************************************************************)
IsItem(r) == r.ev \in Calls

C37_NoAcceptedEventLost ==
    \A p \in Calls :
        ( /\ pc[p] = "done" /\ res[p] = Nil
          /\ did[p] \in DOMAIN delivered
          /\ did[p] \notin DOMAIN queue
          /\ exec[did[p]].st = "finished" )
        => \/ \E d \in DOMAIN delivered : IsItem(delivered[d]) /\ delivered[d].ts >= ev[p]
           \/ \E d \in DOMAIN items :
                 /\ IsItem(items[d]) /\ items[d].ts >= ev[p]
                 /\ d \in DOMAIN queue

(***************************************************************************)
(* C38: in every reachable state the delay queue holds at most one         *)
(* outstanding job per debounce id.  Counting per id the Enqueue calls     *)
(* that returned success and the jobs that fired and left the queue, the   *)
(* difference is 1 when a job of that id is outstanding and 0 otherwise,   *)
(* on the create path, on the -3 path and across retries.                  *)
(***************************************************************************)
\* the number of jobs of id d that fired and left the queue
LeftQueue(d) ==
    IF d \notin DOMAIN exec THEN 0
    ELSE IF exec[d].st = "finished" THEN exec[d].fires ELSE exec[d].fires - 1

C39_ExpiryBeforeJob ==
    [][\A p \in Calls :
          ( /\ pc[p] \in {"enqueue", "requeue"}
            /\ pc'[p] = "done" /\ res'[p] = Nil
            /\ lastAcc[did[p]].by = p )
          => /\ TtlSeconds(Ttl) * Second <= Ttl
             /\ lastAcc[did[p]].at + lastAcc[did[p]].eff * Second < queue'[did[p]].at
      ]_vars

====
